---------------------------- MODULE Spec2Model ----------------------------
(***************************************************************************)
(* Model of the MercadoLibre autos scraper (rburdet/cars).                 *)
(*                                                                         *)
(* One entry point of the repository runs per behaviour (variable prog):   *)
(*   "worker" : the Cloudflare worker's infinite search                    *)
(*              (handleAutosSearch -> handleInfiniteSearch)                *)
(*   "local"  : LocalMercadoLibreScraper.scrapeSearch (puppeteer)          *)
(*   "batch"  : BatchScraper.scrapeCarModels                               *)
(*   "client" : MercadoLibreAutosClient.batchScrape                        *)
(*   "dedup"  : the two deduplication routines applied to a record list    *)
(*   "api"    : CarsAPI.storeCars requests against the KV store            *)
(*                                                                         *)
(* A record (car) is [id, v]: id = NullId stands for id: null, v tells     *)
(* apart different records that carry the same id.                         *)
(***************************************************************************)
EXTENDS Integers, Sequences, FiniteSets, TLC

VARIABLES
    prog,            \* which entry point runs in this behaviour
    kv,              \* env.CAR_LISTINGS: key -> stored collection or NoValue
    \* ---- worker: handleAutosSearch / handleInfiniteSearch ----
    wPc,             \* position in the handler
    wBrand,          \* query parameter brand (model is fixed)
    wAutoStore,      \* query parameter store=true
    wMaxPagesParam,  \* query parameter maxPages (0 = not given)
    wNow,            \* Date.now() - startTime, in ms
    wCurrentPage,    \* currentPage
    wTotalPages,     \* totalPages
    wHasMorePages,   \* hasMorePages
    wAllCars,        \* allCars
    wExit,           \* which branch ended the loop
    wFetched,        \* page numbers requested from the site, in order
    wServed,         \* pages the site answered with a success status, in order
    wResponse,       \* the JSON response of the request
    wDelayed,        \* a politeness delay was awaited since the last fetch
    \* ---- local scraper: scrapeSearch ----
    lPc,
    lMaxPages,       \* this.maxPages (0 = null = infinite)
    lCurrentPage,    \* currentPage
    lHasNextPage,    \* hasNextPage
    lAllCars,        \* allCars
    lExit,
    lFetched,
    lServed,
    lResult,         \* the object scrapeSearch returns
    lStore,          \* scrapeAndStore: the file saved, the upload, the outcome
    \* ---- batches: scrapeCarModels / batchScrape ----
    bPc,
    bN,              \* carModels.length
    bOutcome,        \* what the i-th query does when it is run
    bI,              \* loop index i (1-based)
    bResults,        \* this.results / results
    bLog,            \* queries started and delays awaited, in order
    bReturned,       \* the array the batch returned
    \* ---- deduplication routines ----
    dPc,
    dCars,           \* the input list
    dResult,         \* outputs on the list and on the list twice
    \* ---- CarsAPI ----
    sCount,          \* requests handled so far
    sLast,           \* the last request and its response
    \* ---- detail enrichment of one record ----
    ePc,
    eCar,            \* the record after the summary pass
    eResult,         \* the record after the enrichment
    \* ---- year extraction ----
    yCount,          \* texts handed to the extractor so far
    yResult,         \* the extractor used last and the record's year
    \* ---- MercadoLibreAutosScraper fed by the HTMLRewriter handlers ----
    scraper,         \* the object: limit, products, currentProduct, productCount
    scEvents,        \* handler calls so far
    \* ---- detectNextPage on one page's markup ----
    nResult,         \* the markup analysed and the decision
    \* ---- the fields of one record in progress ----
    fProduct,        \* price.amount, year, kilometers, location, thumbnail
    fEvents,         \* handler calls so far
    \* ---- addPrice on one price text ----
    pResult,         \* the text handed over and the amount it left
    \* ---- handleInfiniteSearch of search-autos.ts ----
    tsSearch,        \* the loop's position, the response, the scraper's records
    \* ---- two storeCars requests for one key ----
    race             \* each request's position and what it read

vars == << prog, kv,
           wPc, wBrand, wAutoStore, wMaxPagesParam, wNow, wCurrentPage,
           wTotalPages, wHasMorePages, wAllCars, wExit, wFetched, wServed,
           wResponse, wDelayed,
           lPc, lMaxPages, lCurrentPage, lHasNextPage, lAllCars, lExit,
           lFetched, lServed, lResult, lStore,
           bPc, bN, bOutcome, bI, bResults, bLog, bReturned,
           dPc, dCars, dResult,
           sCount, sLast ,
           ePc, eCar, eResult,
           yCount, yResult,
           scraper, scEvents, nResult,
           fProduct, fEvents, pResult, tsSearch, race >>

workerVars == << wPc, wBrand, wAutoStore, wMaxPagesParam, wNow, wCurrentPage,
                 wTotalPages, wHasMorePages, wAllCars, wExit, wFetched,
                 wServed, wResponse , wDelayed >>
localVars  == << lPc, lMaxPages, lCurrentPage, lHasNextPage, lAllCars, lExit,
                 lFetched, lServed, lResult, lStore >>
batchVars  == << bPc, bN, bOutcome, bI, bResults, bLog, bReturned >>
dedupVars  == << dPc, dCars, dResult >>
apiVars    == << sCount, sLast >>
extractVars == << ePc, eCar, eResult, yCount, yResult, scraper, scEvents,
                 nResult >>
unitVars   == << fProduct, fEvents, pResult, tsSearch, race >>

-----------------------------------------------------------------------------
(* Bounds of the model *)

MaxPagesOpt == 2      \* largest --max-pages value tried
MaxQueries  == 3      \* longest batch
MaxDedupLen == 3      \* longest list handed to a deduplication routine
MaxStoreLen == 2      \* longest cars array in a storeCars request
MaxRequests == 2      \* storeCars requests per behaviour
MaxYearTexts == 2     \* texts with a year handed to one record's extractor
MaxScraperEvents == 4 \* handler calls made on one scraper object

\* The local scraper's pages are followed exactly up to PageCap.
PageCap == MaxPagesOpt + 2
\* Omega stands for every page number beyond PageCap (used only by the
\* specification in which an unbounded session is followed forever).
Omega == PageCap + 1

-----------------------------------------------------------------------------
(* Records *)

NullId == 0
Car(i, v) == [id |-> i, v |-> v]

Ids      == {NullId, 1, 2}
Versions == {1, 2}
Cars     == {Car(i, v) : i \in Ids, v \in Versions}

RECURSIVE SeqsUpTo(_, _)
SeqsUpTo(S, n) ==
    IF n = 0 THEN { <<>> }
    ELSE LET shorter == SeqsUpTo(S, n - 1)
         IN  shorter \cup { Append(s, x) : s \in {t \in shorter : Len(t) = n - 1}, x \in S }

RECURSIVE Flatten(_)
Flatten(pages) ==
    IF pages = <<>> THEN <<>> ELSE Head(pages) \o Flatten(Tail(pages))

Range(s) == { s[i] : i \in DOMAIN s }

-----------------------------------------------------------------------------
(* Deduplication *)

\* faulty variant of UniqueCars: the id-less records are deduplicated like the others
RECURSIVE UniqueCarsSetLoop(_, _, _)
UniqueCarsSetLoop(cars, seenIds, uniqueCars) ==
    IF cars = <<>> THEN uniqueCars
    ELSE LET car == Head(cars)
         IN  IF car.id \notin seenIds
             THEN UniqueCarsSetLoop(Tail(cars), seenIds \cup {car.id}, Append(uniqueCars, car))
             ELSE UniqueCarsSetLoop(Tail(cars), seenIds, uniqueCars)
UniqueCars_DedupNull(allCars) == UniqueCarsSetLoop(allCars, {}, <<>>)

\* faulty variant of UniqueCars: a later record with a seen id replaces the kept one
RECURSIVE UniqueCarsLastLoop(_, _)
UniqueCarsLastLoop(cars, uniqueCars) ==
    IF cars = <<>> THEN uniqueCars
    ELSE LET car == Head(cars)
         IN  IF car.id # NullId /\ \E k \in DOMAIN uniqueCars : uniqueCars[k].id = car.id
             THEN UniqueCarsLastLoop(Tail(cars),
                      [k \in DOMAIN uniqueCars |->
                          IF uniqueCars[k].id = car.id THEN car ELSE uniqueCars[k]])
             ELSE UniqueCarsLastLoop(Tail(cars), Append(uniqueCars, car))
UniqueCars_LastWins(allCars) == UniqueCarsLastLoop(allCars, <<>>)

\* handleInfiniteSearch, "Remove duplicates based on ID": the loop over allCars
RECURSIVE UniqueCarsLoop(_, _, _)
UniqueCarsLoop(cars, seenIds, uniqueCars) ==
    IF cars = <<>> THEN uniqueCars
    ELSE LET car == Head(cars)
         IN  IF car.id # NullId /\ car.id \notin seenIds
             THEN UniqueCarsLoop(Tail(cars), seenIds \cup {car.id}, Append(uniqueCars, car))
             ELSE IF car.id = NullId
             THEN UniqueCarsLoop(Tail(cars), seenIds, Append(uniqueCars, car))
             ELSE UniqueCarsLoop(Tail(cars), seenIds, uniqueCars)

UniqueCars(allCars) == UniqueCarsLoop(allCars, {}, <<>>)

\* removeDuplicates(cars) of CarsAPI and of LocalMercadoLibreScraper:
\* cars.filter with a Set of the ids seen, null included
RECURSIVE RemoveDuplicatesLoop(_, _, _)
RemoveDuplicatesLoop(cars, seen, kept) ==
    IF cars = <<>> THEN kept
    ELSE LET car == Head(cars)
         IN  IF car.id \in seen
             THEN RemoveDuplicatesLoop(Tail(cars), seen, kept)
             ELSE RemoveDuplicatesLoop(Tail(cars), seen \cup {car.id}, Append(kept, car))

RemoveDuplicates(cars) == RemoveDuplicatesLoop(cars, {}, <<>>)

-----------------------------------------------------------------------------
(* The KV store *)

Brands == {"Fiat", "fiat"}
Model  == "uno"

toLowerCase(s) == IF s = "Fiat" THEN "fiat" ELSE s

\* `${brand}-${model}`
Key(brand, model) == << brand, model >>
Keys == { Key(b, Model) : b \in Brands }

NoValue == [cars |-> <<>>, n |-> 0, writer |-> "none"]
EmptyKV == [k \in Keys |-> NoValue]


-----------------------------------------------------------------------------
(* The worker: handleAutosSearch with limit=infinite, handleInfiniteSearch *)

MaxExecutionTime == 20000
PageDelayMs      == 1500
MinCarsPerPage   == 5

\* time a fetch may take, in ms
FetchDurations == {0, 7000}

\* what a result page of the site may hold: nothing, a sparse page, two full
\* pages that share one id, the second with an id-less record and, served
\* twice, with four of its five ids seen before
PageSparse == << Car(2, 2), Car(NullId, 3) >>
PageA == << Car(1, 1), Car(2, 1), Car(3, 1), Car(4, 1), Car(5, 1) >>
PageB == << Car(1, 2), Car(NullId, 1), Car(6, 1), Car(7, 1), Car(8, 1) >>
WPages == { [cars |-> c, next |-> n] : c \in { <<>>, PageSparse, PageA, PageB },
                                       n \in BOOLEAN }

NoResponse == [http |-> 0, cars |-> <<>>, pagesScraped |-> 0, carsFound |-> 0,
               totalCarsBeforeDedup |-> 0, duplicatesRemoved |-> 0,
               autoStore |-> "null"]

\* detectNextPage(htmlContent, currentPage): the page's own continue/stop signal
detectNextPage(page) == page.next

\* pageResult.cars.filter(car => car.id && allPreviousIds.has(car.id)).length
duplicateCount(pageCars, previousCars) ==
    LET allPreviousIds == { previousCars[i].id : i \in DOMAIN previousCars } \ {NullId}
    IN  Cardinality({ i \in DOMAIN pageCars :
                        pageCars[i].id # NullId /\ pageCars[i].id \in allPreviousIds })

\* faulty variant of PageVerdict: without the duplicate detection
PageVerdict_NoDuplicateCheck(pageCars, hasNextPage, currentPage, previousCars) ==
    IF Len(pageCars) > 0
    THEN IF ~hasNextPage THEN "nonext"
         ELSE IF Len(pageCars) < MinCarsPerPage THEN "sparse"
         ELSE "more"
    ELSE "empty"

\* the branch of the page's primary/secondary/tertiary checks that is taken
PageVerdict(pageCars, hasNextPage, currentPage, previousCars) ==
    IF Len(pageCars) > 0
    THEN IF ~hasNextPage THEN "nonext"
         ELSE IF Len(pageCars) < MinCarsPerPage THEN "sparse"
         ELSE IF currentPage > 1
                 /\ duplicateCount(pageCars, previousCars) * 10 > Len(pageCars) * 8
              THEN "dups"
              ELSE "more"
    ELSE "empty"

WPreFetchOk ==
    /\ prog = "worker" /\ wPc = "prefetch"
    /\ wFetched' = Append(wFetched, 1)
    /\ wPc' = "loop"
    /\ wDelayed' = FALSE
    /\ UNCHANGED << prog, kv, wBrand, wAutoStore, wMaxPagesParam, wNow,
                    wCurrentPage, wTotalPages, wHasMorePages, wAllCars, wExit,
                    wServed, wResponse >>
    /\ UNCHANGED << localVars, batchVars, dedupVars, apiVars, extractVars, unitVars >>

\* !resp.ok or a network error in handleAutosSearch: the catch answers 500
WPreFetchFail ==
    /\ prog = "worker" /\ wPc = "prefetch"
    /\ wFetched' = Append(wFetched, 1)
    /\ wPc' = "done"
    /\ wExit' = "prefetch"
    /\ wResponse' = [NoResponse EXCEPT !.http = 500]
    /\ wDelayed' = FALSE
    /\ UNCHANGED << prog, kv, wBrand, wAutoStore, wMaxPagesParam, wNow,
                    wCurrentPage, wTotalPages, wHasMorePages, wAllCars,
                    wServed >>
    /\ UNCHANGED << localVars, batchVars, dedupVars, apiVars, extractVars, unitVars >>

\* faulty variant of WLoop: without the check of 80% of the time budget
WLoop_NoEarlyStop ==
    /\ prog = "worker" /\ wPc = "loop"
    /\ IF ~(wHasMorePages /\ wNow < MaxExecutionTime)
       THEN /\ wPc' = "finish"
            /\ wExit' = IF wHasMorePages THEN "timeout" ELSE wExit
            /\ UNCHANGED << wFetched, wDelayed >>
       ELSE /\ wPc' = "fetch"
            /\ wFetched' = Append(wFetched, wCurrentPage)
            /\ wDelayed' = FALSE
            /\ UNCHANGED wExit
    /\ UNCHANGED << prog, kv, wBrand, wAutoStore, wMaxPagesParam, wNow,
                    wCurrentPage, wTotalPages, wHasMorePages, wAllCars,
                    wServed, wResponse >>
    /\ UNCHANGED << localVars, batchVars, dedupVars, apiVars, extractVars, unitVars >>

\* the while condition, the 80% check and the fetch being issued
WLoop ==
    /\ prog = "worker" /\ wPc = "loop"
    /\ IF ~(wHasMorePages /\ wNow < MaxExecutionTime)
       THEN /\ wPc' = "finish"
            /\ wExit' = IF wHasMorePages THEN "timeout" ELSE wExit
            /\ UNCHANGED << wFetched, wDelayed >>
       ELSE IF wNow * 10 > MaxExecutionTime * 8
       THEN /\ wPc' = "finish"
            /\ wExit' = "budget80"
            /\ UNCHANGED << wFetched, wDelayed >>
       ELSE /\ wPc' = "fetch"
            /\ wFetched' = Append(wFetched, wCurrentPage)
            /\ wDelayed' = FALSE
            /\ UNCHANGED wExit
    /\ UNCHANGED << prog, kv, wBrand, wAutoStore, wMaxPagesParam, wNow,
                    wCurrentPage, wTotalPages, wHasMorePages, wAllCars,
                    wServed, wResponse >>
    /\ UNCHANGED << localVars, batchVars, dedupVars, apiVars, extractVars, unitVars >>

\* faulty variant of WFetchFail: the failure discards what was gathered
WFetchFail_Discard ==
    /\ prog = "worker" /\ wPc = "fetch"
    /\ \E d \in FetchDurations : wNow' = wNow + d
    /\ wPc' = "finish"
    /\ wExit' = "failed"
    /\ wAllCars' = <<>>
    /\ UNCHANGED wDelayed
    /\ UNCHANGED << prog, kv, wBrand, wAutoStore, wMaxPagesParam,
                    wCurrentPage, wTotalPages, wHasMorePages,
                    wFetched, wServed, wResponse >>
    /\ UNCHANGED << localVars, batchVars, dedupVars, apiVars, extractVars, unitVars >>

\* !resp.ok, or fetch / the page's processing throws: break
WFetchFail ==
    /\ prog = "worker" /\ wPc = "fetch"
    /\ \E d \in FetchDurations : wNow' = wNow + d
    /\ wPc' = "finish"
    /\ wExit' = "failed"
    /\ UNCHANGED wDelayed
    /\ UNCHANGED << prog, kv, wBrand, wAutoStore, wMaxPagesParam,
                    wCurrentPage, wTotalPages, wHasMorePages, wAllCars,
                    wFetched, wServed, wResponse >>
    /\ UNCHANGED << localVars, batchVars, dedupVars, apiVars, extractVars, unitVars >>

\* a page arrives with a success status and is processed
WFetchOk ==
    /\ prog = "worker" /\ wPc = "fetch"
    /\ \E d \in FetchDurations, page \in WPages :
          LET hasNextPage == detectNextPage(page)
              verdict == PageVerdict(page.cars, hasNextPage, wCurrentPage, wAllCars)
          IN  /\ wNow' = wNow + d
              /\ wServed' = Append(wServed, page.cars)
              /\ wAllCars' = wAllCars \o page.cars
              /\ wHasMorePages' = (verdict = "more")
              /\ wExit' = IF verdict = "more" THEN wExit ELSE verdict
              /\ wPc' = IF verdict = "more" THEN "delay" ELSE "loop"
    /\ wCurrentPage' = wCurrentPage + 1
    /\ wTotalPages' = wTotalPages + 1
    /\ UNCHANGED wDelayed
    /\ UNCHANGED << prog, kv, wBrand, wAutoStore, wMaxPagesParam, wFetched,
                    wResponse >>
    /\ UNCHANGED << localVars, batchVars, dedupVars, apiVars, extractVars, unitVars >>

\* await new Promise(resolve => setTimeout(resolve, 1500))
WDelay ==
    /\ prog = "worker" /\ wPc = "delay"
    /\ wNow' = wNow + PageDelayMs
    /\ wPc' = "loop"
    /\ wDelayed' = TRUE
    /\ UNCHANGED << prog, kv, wBrand, wAutoStore, wMaxPagesParam,
                    wCurrentPage, wTotalPages, wHasMorePages, wAllCars, wExit,
                    wFetched, wServed, wResponse >>
    /\ UNCHANGED << localVars, batchVars, dedupVars, apiVars, extractVars, unitVars >>

\* after the loop: deduplicate, auto-store, answer
WFinish ==
    /\ prog = "worker" /\ wPc = "finish"
    /\ LET uniqueCars == UniqueCars(wAllCars)
           answer(storeResult) ==
               [http |-> 200, cars |-> uniqueCars, pagesScraped |-> wTotalPages,
                carsFound |-> Len(uniqueCars),
                totalCarsBeforeDedup |-> Len(wAllCars),
                duplicatesRemoved |-> Len(wAllCars) - Len(uniqueCars),
                autoStore |-> storeResult]
       IN  IF wAutoStore /\ Len(uniqueCars) > 0
           THEN \/ /\ kv' = [kv EXCEPT ![Key(wBrand, Model)] =
                                [cars |-> uniqueCars, n |-> Len(uniqueCars),
                                 writer |-> "infinite"]]
                   /\ wResponse' = answer("stored")
                \/ /\ UNCHANGED kv          \* CAR_LISTINGS.put throws
                   /\ wResponse' = answer("failed")
           ELSE /\ UNCHANGED kv
                /\ wResponse' = answer("null")
    /\ wPc' = "done"
    /\ UNCHANGED wDelayed
    /\ UNCHANGED << prog, wBrand, wAutoStore, wMaxPagesParam, wNow,
                    wCurrentPage, wTotalPages, wHasMorePages, wAllCars, wExit,
                    wFetched, wServed >>
    /\ UNCHANGED << localVars, batchVars, dedupVars, apiVars, extractVars, unitVars >>

WorkerNext ==
    \/ WPreFetchOk
    \/ WPreFetchFail
    \/ WLoop
    \/ WFetchFail
    \/ WFetchOk
    \/ WDelay
    \/ WFinish

-----------------------------------------------------------------------------
(* The local scraper: LocalMercadoLibreScraper.scrapeSearch *)

\* the extractor drops every element whose link has no MLA id, so the local
\* scraper's records all carry an id
LPageX == << Car(1, 1), Car(2, 1) >>
LPageY == << Car(2, 2), Car(3, 1) >>
LPages == { [cars |-> c, next |-> n] : c \in { <<>>, LPageX, LPageY }, n \in BOOLEAN }

NoResult == [totalCars |-> 0, pagesScraped |-> 0, cars |-> <<>>]

\* faulty variant of LoopCondition: the page ceiling is not looked at
LoopCondition_NoCeiling(hasNextPage, maxPages, currentPage) == hasNextPage

\* hasNextPage && (this.maxPages === null || currentPage <= this.maxPages)
LoopCondition(hasNextPage, maxPages, currentPage) ==
    hasNextPage /\ (maxPages = 0 \/ currentPage <= maxPages)

\* the while condition and page.goto being issued
LLoop ==
    /\ prog = "local" /\ lPc = "loop"
    /\ IF LoopCondition(lHasNextPage, lMaxPages, lCurrentPage)
       THEN /\ lPc' = "goto"
            /\ lFetched' = IF lCurrentPage = Omega THEN lFetched
                           ELSE Append(lFetched, lCurrentPage)
            /\ UNCHANGED lExit
       ELSE /\ lPc' = "finish"
            /\ lExit' = IF lHasNextPage THEN "maxpages" ELSE lExit
            /\ UNCHANGED lFetched
    /\ UNCHANGED << prog, kv, lMaxPages, lCurrentPage, lHasNextPage, lAllCars,
                    lServed, lResult, lStore >>
    /\ UNCHANGED << workerVars, batchVars, dedupVars, apiVars, extractVars, unitVars >>

\* page.goto (or anything else in the try block) throws: break
LGotoThrows ==
    /\ prog = "local" /\ lPc = "goto"
    /\ lPc' = "finish"
    /\ lExit' = "failed"
    /\ UNCHANGED << prog, kv, lMaxPages, lCurrentPage, lHasNextPage, lAllCars,
                    lFetched, lServed, lResult, lStore >>
    /\ UNCHANGED << workerVars, batchVars, dedupVars, apiVars, extractVars, unitVars >>

\* the page loads; extractCarsFromPage, allCars.push, hasNextPage()
LPage ==
    /\ prog = "local" /\ lPc = "goto"
    /\ \E page \in LPages :
          /\ lServed' = IF lCurrentPage = Omega THEN lServed
                        ELSE Append(lServed, page.cars)
          /\ IF Len(page.cars) = 0
             THEN /\ lPc' = "finish"
                  /\ lExit' = "empty"
                  /\ UNCHANGED << lAllCars, lHasNextPage >>
             ELSE /\ lAllCars' = IF lCurrentPage = Omega THEN lAllCars
                                 ELSE lAllCars \o page.cars
                  /\ lHasNextPage' = page.next
                  /\ lPc' = IF page.next THEN "delay" ELSE "loop"
                  /\ lExit' = IF page.next THEN lExit ELSE "nonext"
    /\ UNCHANGED << prog, kv, lMaxPages, lCurrentPage, lFetched, lResult,
                    lStore >>
    /\ UNCHANGED << workerVars, batchVars, dedupVars, apiVars, extractVars, unitVars >>

\* await the delay, then currentPage++.  A session is followed page by page
\* up to PageCap; with forever = TRUE a session that goes on is followed
\* further with its page number abstracted to Omega.
LDelay(forever) ==
    /\ prog = "local" /\ lPc = "delay"
    /\ forever \/ lCurrentPage < PageCap
    /\ lCurrentPage' = IF lCurrentPage < PageCap THEN lCurrentPage + 1 ELSE Omega
    /\ lPc' = "loop"
    /\ UNCHANGED << prog, kv, lMaxPages, lHasNextPage, lAllCars, lExit,
                    lFetched, lServed, lResult, lStore >>
    /\ UNCHANGED << workerVars, batchVars, dedupVars, apiVars, extractVars, unitVars >>

\* after the loop: removeDuplicates and the returned object
LFinish ==
    /\ prog = "local" /\ lPc = "finish"
    /\ LET uniqueCars == RemoveDuplicates(lAllCars)
       IN  lResult' = [totalCars |-> Len(uniqueCars),
                       pagesScraped |-> lCurrentPage - 1,
                       cars |-> uniqueCars]
    /\ lPc' = "done"
    /\ UNCHANGED << prog, kv, lMaxPages, lCurrentPage, lHasNextPage, lAllCars,
                    lExit, lFetched, lServed, lStore >>
    /\ UNCHANGED << workerVars, batchVars, dedupVars, apiVars, extractVars, unitVars >>

\* scrapeAndStore after scrapeSearch returned: the data is saved to a file,
\* then uploaded (POST /store-cars) unless the upload is switched off
NoStore == [state |-> "pending", file |-> NoResult, uploadFailed |-> FALSE,
            data |-> NoResult]

\* saveToFile, then the upload succeeds or is switched off: return data
SasReturn ==
    /\ prog = "local" /\ lPc = "done" /\ lStore.state = "pending"
    /\ lStore' = [state |-> "returned", file |-> lResult,
                  uploadFailed |-> FALSE, data |-> lResult]
    /\ UNCHANGED << prog, kv, lPc, lMaxPages, lCurrentPage, lHasNextPage,
                    lAllCars, lExit, lFetched, lServed, lResult >>
    /\ UNCHANGED << workerVars, batchVars, dedupVars, apiVars, extractVars, unitVars >>

\* saveToFile, then uploadToCloudflare fails (fetch rejects or !response.ok):
\* it logs and rethrows, and scrapeAndStore has no catch
SasUploadThrows ==
    /\ prog = "local" /\ lPc = "done" /\ lStore.state = "pending"
    /\ lStore' = [state |-> "threw", file |-> lResult,
                  uploadFailed |-> TRUE, data |-> NoResult]
    /\ UNCHANGED << prog, kv, lPc, lMaxPages, lCurrentPage, lHasNextPage,
                    lAllCars, lExit, lFetched, lServed, lResult >>
    /\ UNCHANGED << workerVars, batchVars, dedupVars, apiVars, extractVars, unitVars >>

LocalNext(forever) ==
    \/ LLoop
    \/ LGotoThrows
    \/ LPage
    \/ LDelay(forever)
    \/ LFinish
    \/ SasReturn
    \/ SasUploadThrows

-----------------------------------------------------------------------------
(* Batches: BatchScraper.scrapeCarModels and MercadoLibreAutosClient.batchScrape *)

\* what running one query does: it returns a result or it throws an Error
Outcomes == { [ok |-> TRUE,  cars |-> 2, msg |-> ""],
              [ok |-> FALSE, cars |-> 0, msg |-> "E1"],
              [ok |-> FALSE, cars |-> 0, msg |-> "E2"] }

Started(i) == [ev |-> "start", q |-> i]
Delayed    == [ev |-> "delay", q |-> 0]

Succeeded(i, outcome) == [q |-> i, success |-> TRUE,  totalCars |-> outcome.cars, error |-> ""]
Failed(i, outcome)    == [q |-> i, success |-> FALSE, totalCars |-> 0, error |-> outcome.msg]

\* for (let i = 0; i < carModels.length; i++) { ... scrapeAndStore is called;
\* after the loop generateSummaryReport() and return this.results
BsLoop ==
    /\ prog = "batch" /\ bPc = "loop"
    /\ IF bI <= bN
       THEN /\ bPc' = "query"
            /\ bLog' = Append(bLog, Started(bI))
            /\ UNCHANGED bReturned
       ELSE /\ bPc' = "done"
            /\ bReturned' = bResults
            /\ UNCHANGED bLog
    /\ UNCHANGED << prog, kv, bN, bOutcome, bI, bResults >>
    /\ UNCHANGED << workerVars, localVars, dedupVars, apiVars, extractVars, unitVars >>

\* scrapeAndStore returned: push the success, wait unless this was the last
BsQueryOk ==
    /\ prog = "batch" /\ bPc = "query"
    /\ bOutcome[bI].ok
    /\ bResults' = Append(bResults, Succeeded(bI, bOutcome[bI]))
    /\ IF bI < bN
       THEN bPc' = "delay" /\ UNCHANGED bI
       ELSE bPc' = "loop" /\ bI' = bI + 1
    /\ UNCHANGED << prog, kv, bN, bOutcome, bLog, bReturned >>
    /\ UNCHANGED << workerVars, localVars, dedupVars, apiVars, extractVars, unitVars >>

\* faulty variant of BsQueryThrows: the error ends the batch
BsQueryThrows_Abort ==
    /\ prog = "batch" /\ bPc = "query"
    /\ ~bOutcome[bI].ok
    /\ bResults' = Append(bResults, Failed(bI, bOutcome[bI]))
    /\ bPc' = "loop"
    /\ bI' = bN + 1
    /\ UNCHANGED << prog, kv, bN, bOutcome, bLog, bReturned >>
    /\ UNCHANGED << workerVars, localVars, dedupVars, apiVars, extractVars, unitVars >>

\* the catch block: push the failure and go on with the next i
BsQueryThrows ==
    /\ prog = "batch" /\ bPc = "query"
    /\ ~bOutcome[bI].ok
    /\ bResults' = Append(bResults, Failed(bI, bOutcome[bI]))
    /\ bPc' = "loop"
    /\ bI' = bI + 1
    /\ UNCHANGED << prog, kv, bN, bOutcome, bLog, bReturned >>
    /\ UNCHANGED << workerVars, localVars, dedupVars, apiVars, extractVars, unitVars >>

\* await new Promise(resolve => setTimeout(resolve, this.delay))
BsDelay ==
    /\ prog = "batch" /\ bPc = "delay"
    /\ bLog' = Append(bLog, Delayed)
    /\ bPc' = "loop"
    /\ bI' = bI + 1
    /\ UNCHANGED << prog, kv, bN, bOutcome, bResults, bReturned >>
    /\ UNCHANGED << workerVars, localVars, dedupVars, apiVars, extractVars, unitVars >>

\* batchScrape: for (let i = 0; i < brandsModels.length; i++) { ... } return results
ClLoop ==
    /\ prog = "client" /\ bPc = "loop"
    /\ IF bI <= bN
       THEN /\ bPc' = "query"
            /\ bLog' = Append(bLog, Started(bI))
            /\ UNCHANGED bReturned
       ELSE /\ bPc' = "done"
            /\ bReturned' = bResults
            /\ UNCHANGED bLog
    /\ UNCHANGED << prog, kv, bN, bOutcome, bI, bResults >>
    /\ UNCHANGED << workerVars, localVars, dedupVars, apiVars, extractVars, unitVars >>

\* searchCars returned or threw (try / catch), then the rate limiting
ClQuery ==
    /\ prog = "client" /\ bPc = "query"
    /\ bResults' = Append(bResults,
                      IF bOutcome[bI].ok THEN Succeeded(bI, bOutcome[bI])
                                         ELSE Failed(bI, bOutcome[bI]))
    /\ IF bI < bN
       THEN bPc' = "delay" /\ UNCHANGED bI
       ELSE bPc' = "loop" /\ bI' = bI + 1
    /\ UNCHANGED << prog, kv, bN, bOutcome, bLog, bReturned >>
    /\ UNCHANGED << workerVars, localVars, dedupVars, apiVars, extractVars, unitVars >>

\* await new Promise(resolve => setTimeout(resolve, delay))
ClDelay ==
    /\ prog = "client" /\ bPc = "delay"
    /\ bLog' = Append(bLog, Delayed)
    /\ bPc' = "loop"
    /\ bI' = bI + 1
    /\ UNCHANGED << prog, kv, bN, bOutcome, bResults, bReturned >>
    /\ UNCHANGED << workerVars, localVars, dedupVars, apiVars, extractVars, unitVars >>

BatchNext ==
    \/ BsLoop
    \/ BsQueryOk
    \/ BsQueryThrows
    \/ BsDelay
    \/ ClLoop
    \/ ClQuery
    \/ ClDelay

-----------------------------------------------------------------------------
(* The deduplication routines applied to a list and to the list twice *)

NoDedup == [fn |-> "none", once |-> <<>>, twice |-> <<>>]

ApplyUniqueCars ==
    /\ prog = "dedup" /\ dPc = "start"
    /\ dResult' = [fn |-> "UniqueCars", once |-> UniqueCars(dCars),
                   twice |-> UniqueCars(dCars \o dCars)]
    /\ dPc' = "done"
    /\ UNCHANGED << prog, kv, dCars >>
    /\ UNCHANGED << workerVars, localVars, batchVars, apiVars, extractVars, unitVars >>

ApplyRemoveDuplicates ==
    /\ prog = "dedup" /\ dPc = "start"
    /\ dResult' = [fn |-> "removeDuplicates", once |-> RemoveDuplicates(dCars),
                   twice |-> RemoveDuplicates(dCars \o dCars)]
    /\ dPc' = "done"
    /\ UNCHANGED << prog, kv, dCars >>
    /\ UNCHANGED << workerVars, localVars, batchVars, apiVars, extractVars, unitVars >>

DedupNext ==
    \/ ApplyUniqueCars
    \/ ApplyRemoveDuplicates

-----------------------------------------------------------------------------
(* The stored collections: CarsAPI and the KV handlers *)

NoRequest == [op |-> "none", brand |-> "", key |-> Key("", Model),
              cars |-> <<>>, enriched |-> FALSE, http |-> 0,
              totalCars |-> 0, getThrew |-> FALSE]

\* the cars arrays a request may carry; the records of the n-th request have v = n
RequestCars(n) == SeqsUpTo({ Car(i, n) : i \in Ids }, MaxStoreLen)

\* existingData.cars.filter(car => !enhancedCarIds.has(car.id))
existingCarsToKeep(existingCars, cars) ==
    LET enhancedCarIds == { cars[i].id : i \in DOMAIN cars }
    IN  SelectSeq(existingCars, LAMBDA car : car.id \notin enhancedCarIds)

\* finalCars: the merge when the key was read and holds a collection
finalCars(existingData, cars) ==
    IF existingData.writer # "none"
    THEN existingCarsToKeep(existingData.cars, cars) \o cars
    ELSE cars

\* faulty variant of StoreCars: the collection is written although the
\* request ends with the error answer
StoreCars_WriteThenFail ==
    /\ prog = "api" /\ sCount < MaxRequests
    /\ \E brand \in Brands \cup {""}, cars \in RequestCars(sCount + 1),
          getThrows \in BOOLEAN, putThrows \in BOOLEAN, enriched \in BOOLEAN :
          LET key == Key(toLowerCase(brand), toLowerCase(Model))
              \* the inner catch: a failed read leaves existingData = null
              existingData == IF getThrows THEN NoValue ELSE kv[key]
              final == finalCars(existingData, cars)
              request == [op |-> "store", brand |-> brand, key |-> key,
                          cars |-> cars, enriched |-> enriched,
                          http |-> 0, totalCars |-> 0, getThrew |-> getThrows]
          IN  IF brand = ""
              THEN /\ sLast' = [request EXCEPT !.http = 400, !.getThrew = FALSE]
                   /\ UNCHANGED kv
              ELSE IF putThrows
              THEN /\ sLast' = [request EXCEPT !.http = 500]
                   /\ kv' = [kv EXCEPT ![key] =
                               [cars |-> final, n |-> Len(final), writer |-> "storeCars"]]
              ELSE /\ kv' = [kv EXCEPT ![key] =
                               [cars |-> final, n |-> Len(final), writer |-> "storeCars"]]
                   /\ sLast' = [request EXCEPT !.http = 200, !.totalCars = Len(final)]
    /\ sCount' = sCount + 1
    /\ UNCHANGED prog
    /\ UNCHANGED << workerVars, localVars, batchVars, dedupVars, extractVars, unitVars >>

\* one POST /api/store-cars request.  brand = "" stands for a body that fails
\* the validation; CAR_LISTINGS.get and CAR_LISTINGS.put may throw.  enriched
\* tells whether the sender posts records it has enriched (enhance-car-data.js)
\* or the records of a plain scrape; the handler cannot tell.
StoreCars ==
    /\ prog = "api" /\ sCount < MaxRequests
    /\ \E brand \in Brands \cup {""}, cars \in RequestCars(sCount + 1),
          getThrows \in BOOLEAN, putThrows \in BOOLEAN, enriched \in BOOLEAN :
          LET key == Key(toLowerCase(brand), toLowerCase(Model))
              \* the inner catch: a failed read leaves existingData = null
              existingData == IF getThrows THEN NoValue ELSE kv[key]
              final == finalCars(existingData, cars)
              request == [op |-> "store", brand |-> brand, key |-> key,
                          cars |-> cars, enriched |-> enriched,
                          http |-> 0, totalCars |-> 0, getThrew |-> getThrows]
          IN  IF brand = ""
              THEN /\ sLast' = [request EXCEPT !.http = 400, !.getThrew = FALSE]
                   /\ UNCHANGED kv
              ELSE IF putThrows
              THEN /\ sLast' = [request EXCEPT !.http = 500]
                   /\ UNCHANGED kv
              ELSE /\ kv' = [kv EXCEPT ![key] =
                               [cars |-> final, n |-> Len(final), writer |-> "storeCars"]]
                   /\ sLast' = [request EXCEPT !.http = 200, !.totalCars = Len(final)]
    /\ sCount' = sCount + 1
    /\ UNCHANGED prog
    /\ UNCHANGED << workerVars, localVars, batchVars, dedupVars, extractVars, unitVars >>

\* one POST /store-cars request (the endpoint the scrapers upload to): the
\* value under `${brand}-${model}` is replaced.  A put that throws is caught
\* nowhere: the request ends with the runtime's error answer.
HandleStoreCars ==
    /\ prog = "api" /\ sCount < MaxRequests
    /\ \E brand \in Brands \cup {""}, cars \in RequestCars(sCount + 1),
          putThrows \in BOOLEAN, enriched \in BOOLEAN :
          LET key == Key(brand, Model)
              request == [op |-> "handleStore", brand |-> brand, key |-> key,
                          cars |-> cars, enriched |-> enriched,
                          http |-> 0, totalCars |-> 0, getThrew |-> FALSE]
          IN  IF brand = ""
              THEN /\ sLast' = [request EXCEPT !.http = 400]
                   /\ UNCHANGED kv
              ELSE IF putThrows
              THEN /\ sLast' = [request EXCEPT !.http = 500]
                   /\ UNCHANGED kv
              ELSE /\ kv' = [kv EXCEPT ![key] =
                               [cars |-> cars, n |-> Len(cars), writer |-> "handleStore"]]
                   /\ sLast' = [request EXCEPT !.http = 200, !.totalCars = Len(cars)]
    /\ sCount' = sCount + 1
    /\ UNCHANGED prog
    /\ UNCHANGED << workerVars, localVars, batchVars, dedupVars, extractVars, unitVars >>

\* GET /api/cars/:brand/:model
GetCarsByBrandModel ==
    /\ prog = "api" /\ sCount < MaxRequests
    /\ \E brand \in Brands, getThrows \in BOOLEAN :
          LET key == Key(brand, Model)
              request == [op |-> "get", brand |-> brand, key |-> key,
                          cars |-> <<>>, enriched |-> FALSE,
                          http |-> 0, totalCars |-> 0, getThrew |-> getThrows]
          IN  sLast' = IF getThrows THEN [request EXCEPT !.http = 500]
                       ELSE IF kv[key].writer = "none"
                       THEN [request EXCEPT !.http = 404]
                       ELSE [request EXCEPT !.http = 200, !.cars = kv[key].cars,
                                            !.totalCars = kv[key].n]
    /\ sCount' = sCount + 1
    /\ UNCHANGED << prog, kv >>
    /\ UNCHANGED << workerVars, localVars, batchVars, dedupVars, extractVars, unitVars >>

\* DELETE /api/cars/:brand/:model
DeleteCarCollection ==
    /\ prog = "api" /\ sCount < MaxRequests
    /\ \E brand \in Brands, getThrows \in BOOLEAN :
          LET key == Key(brand, Model)
              request == [op |-> "delete", brand |-> brand, key |-> key,
                          cars |-> <<>>, enriched |-> FALSE,
                          http |-> 0, totalCars |-> 0, getThrew |-> getThrows]
          IN  IF getThrows
              THEN /\ sLast' = [request EXCEPT !.http = 500]
                   /\ UNCHANGED kv
              ELSE IF kv[key].writer = "none"
              THEN /\ sLast' = [request EXCEPT !.http = 404]
                   /\ UNCHANGED kv
              ELSE /\ sLast' = [request EXCEPT !.http = 200]
                   /\ kv' = [kv EXCEPT ![key] = NoValue]
    /\ sCount' = sCount + 1
    /\ UNCHANGED prog
    /\ UNCHANGED << workerVars, localVars, batchVars, dedupVars, extractVars, unitVars >>

ApiNext ==
    \/ StoreCars
    \/ HandleStoreCars
    \/ GetCarsByBrandModel
    \/ DeleteCarCollection

-----------------------------------------------------------------------------
(* Detail enrichment: scrapeSearch with extractDetails, enhanceCar *)

\* the fields both passes may produce; "" stands for null / '' / a key that
\* the detail pass did not produce
DetailFields == {"location", "year", "description"}
SummaryCars  == [DetailFields -> {"", "summary"}]
DetailsFound == [DetailFields -> {"", "detail"}]

NoEnrichment == [fn |-> "none", failed |-> FALSE, kept |-> FALSE,
                 car |-> [f \in DetailFields |-> ""]]

\* { ...pageCars[i], ...detailedCar }: every key of detailedCar wins
SpreadDetails(car, detailedCar) ==
    [f \in DetailFields |-> IF detailedCar[f] # "" THEN detailedCar[f] ELSE car[f]]

\* enhanceCar's object literal: details.x || car.x for description and
\* location, the other summary fields are copied
EnhancedCar(car, details) ==
    [f \in DetailFields |->
        IF f \in {"location", "description"} /\ details[f] # ""
        THEN details[f] ELSE car[f]]

\* the detail page is read: pageCars[i] = { ...pageCars[i], ...detailedCar }
LExtractCarDetails ==
    /\ prog = "detail" /\ ePc = "start"
    /\ \E details \in DetailsFound :
          eResult' = [fn |-> "extractCarDetails", failed |-> FALSE, kept |-> TRUE,
                      car |-> SpreadDetails(eCar, details)]
    /\ ePc' = "done"
    /\ UNCHANGED << prog, kv, eCar, yCount, yResult, scraper, scEvents,
                    nResult >>
    /\ UNCHANGED << workerVars, localVars, batchVars, dedupVars, apiVars, unitVars >>

\* the detail page fails: extractCarDetails catches and returns {}
LExtractCarDetailsFails ==
    /\ prog = "detail" /\ ePc = "start"
    /\ eResult' = [fn |-> "extractCarDetails", failed |-> TRUE, kept |-> TRUE,
                   car |-> SpreadDetails(eCar, [f \in DetailFields |-> ""])]
    /\ ePc' = "done"
    /\ UNCHANGED << prog, kv, eCar, yCount, yResult, scraper, scEvents,
                    nResult >>
    /\ UNCHANGED << workerVars, localVars, batchVars, dedupVars, apiVars, unitVars >>

\* enhanceCar with a 200 answer and parsed details
EnhanceCar ==
    /\ prog = "detail" /\ ePc = "start"
    /\ \E details \in DetailsFound :
          eResult' = [fn |-> "enhanceCar", failed |-> FALSE, kept |-> TRUE,
                      car |-> EnhancedCar(eCar, details)]
    /\ ePc' = "done"
    /\ UNCHANGED << prog, kv, eCar, yCount, yResult, scraper, scEvents,
                    nResult >>
    /\ UNCHANGED << workerVars, localVars, batchVars, dedupVars, apiVars, unitVars >>

\* enhanceCar when the request fails, answers another status, or the details
\* cannot be extracted: return car
EnhanceCarFails ==
    /\ prog = "detail" /\ ePc = "start"
    /\ eResult' = [fn |-> "enhanceCar", failed |-> TRUE, kept |-> TRUE,
                   car |-> eCar]
    /\ ePc' = "done"
    /\ UNCHANGED << prog, kv, eCar, yCount, yResult, scraper, scEvents,
                    nResult >>
    /\ UNCHANGED << workerVars, localVars, batchVars, dedupVars, apiVars, unitVars >>

DetailNext ==
    \/ LExtractCarDetails
    \/ LExtractCarDetailsFails
    \/ EnhanceCar
    \/ EnhanceCarFails

-----------------------------------------------------------------------------
(* The year of a record: addCarDetails (two copies), extractCarsFromPage *)

MinYear      == 1990      \* App.tsx addCarDetails, the local extractor
MinYearTs    == 1950      \* search-autos.ts addCarDetails
MaxYearLocal == 2030      \* the local extractor's attribute list
CurrentYear  == 2026      \* new Date().getFullYear()

NoYear == 0               \* year: null / no 4-digit token in the text

\* the 4-digit tokens (19|20)\d{2} a text may hold: before the window, its
\* ends, and after it
YearCandidates == {1985, MinYear, CurrentYear + 1, CurrentYear + 2, CurrentYear + 5}

NoYearResult == [fn |-> "none", year |-> NoYear]

\* the year block of addCarDetails: the first token of the text, kept when it
\* is inside [minYear, currentYear + 1]
addCarDetailsYear(year, yearMatch, minYear) ==
    IF yearMatch # NoYear /\ yearMatch >= minYear /\ yearMatch <= CurrentYear + 1
    THEN yearMatch
    ELSE year

\* the first token of the element text that lies in [1990, currentYear + 1]
FirstReasonableYear(yearMatches) ==
    LET ok == SelectSeq(yearMatches,
                        LAMBDA y : y >= MinYear /\ y <= CurrentYear + 1)
    IN  IF Len(ok) > 0 THEN ok[1] ELSE NoYear

\* the year of extractCarsFromPage: the attribute list, else the title,
\* else the element text
extractYearFromPage(attributeYear, titleYearMatch, yearMatches) ==
    LET year == IF attributeYear # NoYear /\ attributeYear >= MinYear
                   /\ attributeYear <= MaxYearLocal
                THEN attributeYear ELSE NoYear
    IN  IF year # NoYear THEN year
        ELSE IF titleYearMatch # NoYear THEN titleYearMatch
        ELSE FirstReasonableYear(yearMatches)

\* scraper.addCarDetails(text) of App.tsx
AddCarDetails ==
    /\ prog = "year" /\ yCount < MaxYearTexts
    /\ yResult.fn \in {"none", "addCarDetails"}
    /\ \E yearMatch \in YearCandidates \cup {NoYear} :
          yResult' = [fn |-> "addCarDetails",
                      year |-> addCarDetailsYear(yResult.year, yearMatch, MinYear)]
    /\ yCount' = yCount + 1
    /\ UNCHANGED << prog, kv, ePc, eCar, eResult, scraper, scEvents,
                    nResult >>
    /\ UNCHANGED << workerVars, localVars, batchVars, dedupVars, apiVars, unitVars >>

\* scraper.addCarDetails(text) of search-autos.ts
AddCarDetailsTs ==
    /\ prog = "year" /\ yCount < MaxYearTexts
    /\ yResult.fn \in {"none", "addCarDetailsTs"}
    /\ \E yearMatch \in YearCandidates \cup {NoYear} :
          yResult' = [fn |-> "addCarDetailsTs",
                      year |-> addCarDetailsYear(yResult.year, yearMatch, MinYearTs)]
    /\ yCount' = yCount + 1
    /\ UNCHANGED << prog, kv, ePc, eCar, eResult, scraper, scEvents,
                    nResult >>
    /\ UNCHANGED << workerVars, localVars, batchVars, dedupVars, apiVars, unitVars >>

\* one element of extractCarsFromPage
ExtractYearFromPage ==
    /\ prog = "year" /\ yCount = 0
    /\ \E attributeYear \in YearCandidates \cup {NoYear},
          titleYearMatch \in YearCandidates \cup {NoYear},
          yearMatches \in SeqsUpTo(YearCandidates, MaxYearTexts) :
          yResult' = [fn |-> "extractCarsFromPage",
                      year |-> extractYearFromPage(attributeYear, titleYearMatch,
                                                   yearMatches)]
    /\ yCount' = MaxYearTexts
    /\ UNCHANGED << prog, kv, ePc, eCar, eResult, scraper, scEvents,
                    nResult >>
    /\ UNCHANGED << workerVars, localVars, batchVars, dedupVars, apiVars, unitVars >>

YearNext ==
    \/ AddCarDetails
    \/ AddCarDetailsTs
    \/ ExtractYearFromPage

-----------------------------------------------------------------------------
(* MercadoLibreAutosScraper: startProduct, addTitle, setLink, finalize *)

Infinity == 0             \* limit: Infinity

\* an href, by what setLink looks at: its host and what each id pattern
\* captures in it (NullId = the pattern does not match)
NoLink == [host |-> "", mla |-> NullId, pmla |-> NullId, numq |-> NullId,
           numend |-> NullId]
Href(host, mla, numq) ==
    [host |-> host, mla |-> mla, pmla |-> NullId, numq |-> numq, numend |-> NullId]
Hrefs == { Href("autos.mercadolibre.com.ar", 1, NullId),  \* .../MLA-1-fiat-uno
           Href("autos.mercadolibre.com.ar", NullId, NullId),
           Href("auto.mercadolibre.com.ar", 2, NullId),   \* .../MLA-2-...
           Href("www.mercadolibre.com.ar", NullId, 2),    \* .../2?x
           Href("hp.mercadolibre.com", NullId, NullId) }

\* a text, by what the title checks look at
TitleTexts == {"brand", "carword", "year", "other", "navigation"}

\* currentProduct: null, or the record in progress (fragment is the number of
\* the startProduct call that made the record; it tells two records with the
\* same content apart)
NoProduct == [started |-> FALSE, fragment |-> 0, id |-> NullId, title |-> {},
              link |-> NoLink]

\* [/MLA-?(\d+)/i, /\/p\/MLA(\d+)/i, /\/(\d+)[?#]/, /\/(\d+)$/]
patterns(href) == << href.mla, href.pmla, href.numq, href.numend >>

\* for (const pattern of patterns) { ... break; }: the first capture, or the
\* id the product already has
RECURSIVE ExtractIdLoop(_, _, _)
ExtractIdLoop(matches, k, id) ==
    IF k > Len(matches) THEN id
    ELSE IF matches[k] # NullId THEN matches[k]
    ELSE ExtractIdLoop(matches, k + 1, id)

\* faulty variant of isValidCarListing: every candidate looks like a listing
isValidCarListing_Any(product) == TRUE

isValidCarListing(product) ==
    LET hasCarBrand  == "brand" \in product.title
        hasCarWords  == "carword" \in product.title
        hasValidLink == product.link.host = "autos.mercadolibre.com.ar"
    IN  hasCarBrand \/ hasCarWords \/ hasValidLink

finalizeCurrentProduct(this) ==
    IF this.currentProduct.started
       /\ this.currentProduct.title # {} /\ this.currentProduct.link # NoLink
       /\ (this.limit = Infinity \/ Len(this.products) < this.limit)
       /\ isValidCarListing(this.currentProduct)
    THEN [this EXCEPT !.products = Append(@, this.currentProduct)]
    ELSE this

\* faulty variant of startProduct: the limit is not looked at
startProduct_NoLimit(this) ==
    [finalizeCurrentProduct(this) EXCEPT
         !.currentProduct = [NoProduct EXCEPT !.started = TRUE,
                                              !.fragment = this.productCount + 1],
         !.productCount = @ + 1]

\* (refused records that a call returned at its first line: the fragment it
\* was called for never became a record)
startProduct(this) ==
    IF this.limit # Infinity /\ this.productCount >= this.limit
    THEN [this EXCEPT !.refused = TRUE]
    ELSE [finalizeCurrentProduct(this) EXCEPT
              !.currentProduct = [NoProduct EXCEPT !.started = TRUE,
                                                   !.fragment = this.productCount + 1],
              !.productCount = @ + 1]

isValidTitleText(text) == text # "navigation"

addTitle(this, text) ==
    IF this.currentProduct.started /\ isValidTitleText(text)
    THEN [this EXCEPT !.currentProduct.title = @ \cup {text}]
    ELSE this

setLink(this, href) ==
    IF /\ this.currentProduct.started
       /\ \/ href.host = "autos.mercadolibre.com.ar"
          \/ href.mla # NullId                      \* href.includes('/MLA-')
          \/ href.host \in {"auto.mercadolibre.com.ar", "www.mercadolibre.com.ar"}
       /\ \/ this.currentProduct.link = NoLink
          \/ href.host = "autos.mercadolibre.com.ar"
    THEN [this EXCEPT !.currentProduct.link = href,
                      !.currentProduct.id =
                          ExtractIdLoop(patterns(href), 1, this.currentProduct.id)]
    ELSE this

NewScraper(limit) ==
    [limit |-> limit, products |-> <<>>, currentProduct |-> NoProduct,
     productCount |-> 0, refused |-> FALSE]

ScStartProduct ==
    /\ prog = "scraper" /\ scEvents < MaxScraperEvents
    /\ scraper' = startProduct(scraper)
    /\ scEvents' = scEvents + 1
    /\ UNCHANGED << prog, kv, ePc, eCar, eResult, yCount, yResult,
                    nResult >>
    /\ UNCHANGED << workerVars, localVars, batchVars, dedupVars, apiVars, unitVars >>

ScAddTitle ==
    /\ prog = "scraper" /\ scEvents < MaxScraperEvents
    /\ \E text \in TitleTexts : scraper' = addTitle(scraper, text)
    /\ scEvents' = scEvents + 1
    /\ UNCHANGED << prog, kv, ePc, eCar, eResult, yCount, yResult,
                    nResult >>
    /\ UNCHANGED << workerVars, localVars, batchVars, dedupVars, apiVars, unitVars >>

ScSetLink ==
    /\ prog = "scraper" /\ scEvents < MaxScraperEvents
    /\ \E href \in Hrefs : scraper' = setLink(scraper, href)
    /\ scEvents' = scEvents + 1
    /\ UNCHANGED << prog, kv, ePc, eCar, eResult, yCount, yResult,
                    nResult >>
    /\ UNCHANGED << workerVars, localVars, batchVars, dedupVars, apiVars, unitVars >>

\* the body-end handler and the call after the transform
ScFinalize ==
    /\ prog = "scraper" /\ scEvents < MaxScraperEvents
    /\ scraper' = finalizeCurrentProduct(scraper)
    /\ scEvents' = scEvents + 1
    /\ UNCHANGED << prog, kv, ePc, eCar, eResult, yCount, yResult,
                    nResult >>
    /\ UNCHANGED << workerVars, localVars, batchVars, dedupVars, apiVars, unitVars >>

\* one item id of the JSON fallback of processAutosResponse: startProduct,
\* then id and title are assigned directly and setLink is called on
\* https://auto.mercadolibre.com.ar/MLA<id>
ScJsonItem ==
    /\ prog = "scraper" /\ scEvents < MaxScraperEvents
    /\ Len(scraper.products) < 3
    /\ \E id \in Ids \ {NullId}, brandKnown \in BOOLEAN :
          LET this == startProduct(scraper)
              title == IF brandKnown THEN {"brand", "other"} ELSE {"other"}
          IN  scraper' =
                  IF this.currentProduct.started
                  THEN setLink([this EXCEPT !.currentProduct.id = id,
                                            !.currentProduct.title = title],
                               Href("auto.mercadolibre.com.ar", id, NullId))
                  ELSE this
    /\ scEvents' = scEvents + 1
    /\ UNCHANGED << prog, kv, ePc, eCar, eResult, yCount, yResult,
                    nResult >>
    /\ UNCHANGED << workerVars, localVars, batchVars, dedupVars, apiVars, unitVars >>

ScraperNext ==
    \/ ScStartProduct
    \/ ScAddTitle
    \/ ScSetLink
    \/ ScFinalize
    \/ ScJsonItem

-----------------------------------------------------------------------------
(* detectNextPage(htmlContent, currentPage) *)

\* a page's markup, by what the patterns of detectNextPage look at:
\*   siguiente   a "Siguiente" anchor or button: none, enabled, or carrying
\*               disabled / aria-disabled="true"
\*   nextNumber  the next page number: absent, as an <a> link, or as plain
\*               text of another element
\*   container   these sit inside an element whose class contains "pagination"
\*   nextOffset  the string _Desde_<currentPage * 48 + 1>: absent, inside an
\*               href attribute, or elsewhere in the text
\*   endMessage  one of the "no more results" patterns matches
Markups == [siguiente  : {"none", "enabled", "disabled"},
            nextNumber : {"none", "link", "text"},
            container  : BOOLEAN,
            nextOffset : {"none", "href", "text"},
            endMessage : BOOLEAN]

NoMarkup == [siguiente |-> "none", nextNumber |-> "none", container |-> FALSE,
             nextOffset |-> "none", endMessage |-> FALSE]

NoDecision == [analysed |-> FALSE, markup |-> NoMarkup, shouldContinue |-> FALSE]

\* Method 1: a match that does not include 'disabled'
hasEnabledSiguiente(html) == html.siguiente = "enabled"

\* Method 2: aria-label / <a>N</a> / href with the next offset
hasNextPageLink(html) == html.nextNumber = "link" \/ html.nextOffset = "href"

\* Method 3: a pagination container that includes >N<, aria-label="N" or
\* the word Siguiente
hasPaginationWithNext(html) ==
    html.container /\ (html.nextNumber # "none" \/ html.siguiente # "none")

\* Method 4
hasEndMessage(html) == html.endMessage

\* Method 5: htmlContent.includes(nextPageUrl)
hasNextPageUrl(html) == html.nextOffset # "none"

shouldContinue(html) ==
    LET positiveIndicators ==
            hasEnabledSiguiente(html) \/ hasNextPageLink(html)
            \/ hasPaginationWithNext(html) \/ hasNextPageUrl(html)
    IN  positiveIndicators /\ ~hasEndMessage(html)

DetectNextPage ==
    /\ prog = "detect" /\ ~nResult.analysed
    /\ \E html \in Markups :
          nResult' = [analysed |-> TRUE, markup |-> html,
                      shouldContinue |-> shouldContinue(html)]
    /\ UNCHANGED << prog, kv, ePc, eCar, eResult, yCount, yResult, scraper,
                    scEvents >>
    /\ UNCHANGED << workerVars, localVars, batchVars, dedupVars, apiVars, unitVars >>

DetectNext ==
    \/ DetectNextPage

-----------------------------------------------------------------------------
(* MercadoLibreAutosScraper: addPrice, addCarDetails, setThumbnail *)

MaxFieldEvents == 3       \* handler calls on one record

NoKm == -1                \* kilometers: null

\* a price text, by what /[\d.,]+/ matches in it: the digit groups between
\* the dots, and the digits after the comma (<<>> = no comma)
LeadGroups == { <<0>>, <<1>>, <<1, 2>> }
TailGroups == { <<5>>, <<5, 0>>, <<2, 3, 4>>, <<5, 6, 7>> }
CommaParts == { <<>>, <<5>>, <<8, 9>> }
PriceTexts ==
    { [groups |-> gs, comma |-> cm] :
          gs \in { <<a>> : a \in LeadGroups }
                 \cup { <<a, b>> : a \in LeadGroups, b \in TailGroups }
                 \cup { <<a, b, c>> : a \in LeadGroups, b \in TailGroups,
                                      c \in TailGroups },
          cm \in CommaParts }

\* priceMatch[0].length
RECURSIVE MatchLength(_)
MatchLength(text) ==
    IF Len(text.groups) = 0
    THEN IF text.comma = <<>> THEN 0 ELSE Len(text.comma)
    ELSE Len(text.groups[1])
         + (IF Len(text.groups) > 1 \/ text.comma # <<>> THEN 1 ELSE 0)
         + MatchLength([text EXCEPT !.groups = Tail(@)])

\* numStr.replace(/\./g, ''): the groups written one after the other
RECURSIVE RemoveDots(_)
RemoveDots(groups) ==
    IF groups = <<>> THEN <<>> ELSE groups[1] \o RemoveDots(Tail(groups))

RECURSIVE DigitsValue(_)
DigitsValue(digits) ==
    IF digits = <<>> THEN 0
    ELSE DigitsValue(SubSeq(digits, 1, Len(digits) - 1)) * 10 + digits[Len(digits)]

\* parseFloat of <whole>.<fraction>, in hundredths (fractions of at most two
\* digits)
parseFloat(whole, fraction) ==
    DigitsValue(whole) * 100
    + (IF Len(fraction) = 1 THEN DigitsValue(fraction) * 10 ELSE DigitsValue(fraction))

\* the amount block of addPrice: the amount the text leaves in a product
\* whose amount was `amount` (amounts in hundredths)
addPrice(amount, text) ==
    IF MatchLength(text) > 2
    THEN LET hasDot   == Len(text.groups) > 1
             hasComma == text.comma # <<>>
             parsed ==
                 IF hasDot /\ hasComma
                 THEN parseFloat(RemoveDots(text.groups), text.comma)
                 ELSE IF hasDot /\ ~hasComma
                 THEN \* both branches: numStr.replace(/\./g, '')
                      parseFloat(RemoveDots(text.groups), <<>>)
                 ELSE \* no dot: parseFloat stops at the comma, if any
                      parseFloat(text.groups[1], <<>>)
         IN  IF parsed > 0 THEN parsed ELSE amount
    ELSE amount

\* the record startProduct makes, by the five fields these handlers fill
NewProduct == [amount |-> 0, year |-> NoYear, kilometers |-> NoKm,
               location |-> "", thumbnail |-> ""]

\* a details text, by what addCarDetails looks for in it: the first 4-digit
\* token, the number before "km", and the part after the last " - "
DetailTexts == [yearMatch : {NoYear, 1985, MinYear, CurrentYear + 1},
                km        : {NoKm, 50000, 120000},
                location  : {"", "Capital Federal", "Cordoba"}]

addCarDetails(product, text) ==
    LET withYear == [product EXCEPT
                        !.year = addCarDetailsYear(@, text.yearMatch, MinYear)]
        withKm   == IF text.km # NoKm
                    THEN [withYear EXCEPT !.kilometers = text.km]
                    ELSE withYear
    IN  IF text.location # "" /\ withKm.location = ""
        THEN [withKm EXCEPT !.location = text.location]
        ELSE withKm

ThumbnailUrls == {"", "data:image/gif;base64", "https://http2.mlstatic.com/a.jpg",
                  "https://http2.mlstatic.com/b.jpg"}

\* url.includes('http')
IncludesHttp(url) ==
    url \in {"https://http2.mlstatic.com/a.jpg", "https://http2.mlstatic.com/b.jpg"}

setThumbnail(product, url) ==
    IF url # "" /\ IncludesHttp(url) /\ product.thumbnail = ""
    THEN [product EXCEPT !.thumbnail = url]
    ELSE product

\* the price texts the handlers of one record are fed
FieldPriceTexts ==
    { text \in PriceTexts : /\ text.comma = <<>>
                            /\ text.groups \in { << <<1>> >>, << <<1>>, <<2, 3, 4>> >>,
                                                 << <<1, 2>>, <<5, 6, 7>> >> } }

FAddPrice ==
    /\ prog = "fields" /\ fEvents < MaxFieldEvents
    /\ \E text \in FieldPriceTexts :
          fProduct' = [fProduct EXCEPT !.amount = addPrice(@, text)]
    /\ fEvents' = fEvents + 1
    /\ UNCHANGED << prog, kv, pResult, tsSearch, race >>
    /\ UNCHANGED << workerVars, localVars, batchVars, dedupVars, apiVars,
                    extractVars >>

FAddCarDetails ==
    /\ prog = "fields" /\ fEvents < MaxFieldEvents
    /\ \E text \in DetailTexts : fProduct' = addCarDetails(fProduct, text)
    /\ fEvents' = fEvents + 1
    /\ UNCHANGED << prog, kv, pResult, tsSearch, race >>
    /\ UNCHANGED << workerVars, localVars, batchVars, dedupVars, apiVars,
                    extractVars >>

FSetThumbnail ==
    /\ prog = "fields" /\ fEvents < MaxFieldEvents
    /\ \E url \in ThumbnailUrls : fProduct' = setThumbnail(fProduct, url)
    /\ fEvents' = fEvents + 1
    /\ UNCHANGED << prog, kv, pResult, tsSearch, race >>
    /\ UNCHANGED << workerVars, localVars, batchVars, dedupVars, apiVars,
                    extractVars >>

FieldsNext ==
    \/ FAddPrice
    \/ FAddCarDetails
    \/ FSetThumbnail

NoPriceResult == [called |-> FALSE, text |-> [groups |-> <<>>, comma |-> <<>>],
                  amount |-> 0]

\* scraper.addPrice(text) on a record just started
AddPrice ==
    /\ prog = "price" /\ ~pResult.called
    /\ \E text \in PriceTexts :
          pResult' = [called |-> TRUE, text |-> text,
                      amount |-> addPrice(NewProduct.amount, text)]
    /\ UNCHANGED << prog, kv, fProduct, fEvents, tsSearch, race >>
    /\ UNCHANGED << workerVars, localVars, batchVars, dedupVars, apiVars,
                    extractVars >>

PriceNext ==
    \/ AddPrice

-----------------------------------------------------------------------------
(* search-autos.ts and the Pages Function: handleInfiniteSearch *)

TsMaxPages == 50          \* const maxPages = 50

\* a page body, by what the parser and detectNextPage find in it
TsBodies == { [cars |-> cs, next |-> nx] :
                  cs \in { <<>>, << Car(1, 1) >>, << Car(1, 1), Car(2, 1) >> },
                  nx \in BOOLEAN }

NoTsResponse == [ok |-> FALSE, bodyUsed |-> FALSE,
                 body |-> [cars |-> <<>>, next |-> FALSE]]

NewTsSearch == [pc |-> "loop", pageCount |-> 0, resp |-> NoTsResponse,
                html |-> [cars |-> <<>>, next |-> FALSE], products |-> <<>>,
                okPages |-> {}, parsedPages |-> {}, exit |-> "none"]

\* Response.text(): rejects with a TypeError once the body has been read
TextThrows(resp) == resp.bodyUsed

\* while (pageCount < maxPages) { pageCount++; resp = await fetch(currentUrl)
TsLoop ==
    /\ prog = "tssearch" /\ tsSearch.pc = "loop"
    /\ IF tsSearch.pageCount >= TsMaxPages
       THEN tsSearch' = [tsSearch EXCEPT !.pc = "done", !.exit = "maxPages"]
       ELSE \E outcome \in {"throws", "status", "ok"}, body \in TsBodies :
              LET pageCount == tsSearch.pageCount + 1
              IN  tsSearch' =
                    IF outcome = "throws"
                    THEN [tsSearch EXCEPT !.pageCount = pageCount,
                                          !.pc = "done", !.exit = "error"]
                    ELSE IF outcome = "status"
                    THEN [tsSearch EXCEPT !.pageCount = pageCount,
                                          !.resp = NoTsResponse,
                                          !.pc = "done", !.exit = "http"]
                    ELSE [tsSearch EXCEPT !.pageCount = pageCount,
                                          !.resp = [ok |-> TRUE, bodyUsed |-> FALSE,
                                                    body |-> body],
                                          !.okPages = @ \cup {pageCount},
                                          !.pc = "text"]
    /\ UNCHANGED << prog, kv, fProduct, fEvents, pResult, race >>
    /\ UNCHANGED << workerVars, localVars, batchVars, dedupVars, apiVars,
                    extractVars >>

\* const html = await resp.text();
TsText ==
    /\ prog = "tssearch" /\ tsSearch.pc = "text"
    /\ tsSearch' =
          IF TextThrows(tsSearch.resp)
          THEN [tsSearch EXCEPT !.pc = "done", !.exit = "error"]
          ELSE [tsSearch EXCEPT !.html = tsSearch.resp.body,
                                !.resp.bodyUsed = TRUE,
                                !.pc = "process"]
    /\ UNCHANGED << prog, kv, fProduct, fEvents, pResult, race >>
    /\ UNCHANGED << workerVars, localVars, batchVars, dedupVars, apiVars,
                    extractVars >>

\* foundProducts = await processAutosResponse(resp, scraper, ...), whose first
\* statement is `const html = await resp.text()`; then detectNextPage(html)
\* and the delay.  An exception is caught by the loop body's catch: break.
\* (autoStore = false)
TsProcess ==
    /\ prog = "tssearch" /\ tsSearch.pc = "process"
    /\ tsSearch' =
          IF TextThrows(tsSearch.resp)
          THEN [tsSearch EXCEPT !.pc = "done", !.exit = "error"]
          ELSE LET products == tsSearch.products \o tsSearch.resp.body.cars
                   parsed == [tsSearch EXCEPT
                                 !.products = products,
                                 !.resp.bodyUsed = TRUE,
                                 !.parsedPages = @ \cup {tsSearch.pageCount}]
               IN  IF Len(products) = 0
                   THEN [parsed EXCEPT !.pc = "done", !.exit = "noProducts"]
                   ELSE IF ~tsSearch.html.next
                   THEN [parsed EXCEPT !.pc = "done", !.exit = "noNextPage"]
                   ELSE [parsed EXCEPT !.pc = "loop"]
    /\ UNCHANGED << prog, kv, fProduct, fEvents, pResult, race >>
    /\ UNCHANGED << workerVars, localVars, batchVars, dedupVars, apiVars,
                    extractVars >>

TsSearchNext ==
    \/ TsLoop
    \/ TsText
    \/ TsProcess

-----------------------------------------------------------------------------
(* CarsAPI.storeCars: two requests for one key, interleaved at their awaits *)

Requests == {1, 2}

RaceKey == Key("fiat", Model)

\* the cars array of the n-th request: empty or one record
RaceCars(n) == { <<>> } \cup { << Car(i, n) >> : i \in Ids }

NewRequest(cars) == [pc |-> "start", cars |-> cars, existingData |-> NoValue,
                     getThrew |-> FALSE, writesSeen |-> 0, http |-> 0]

\* the puts that have completed
WritesDone == Cardinality({ r \in Requests : race[r].pc = "done" /\ race[r].http = 200 })

\* existing = await this.env.CAR_LISTINGS.get(key), inside the inner try
\* (writesSeen records how many puts had completed when the key was read)
RaceGet(r) ==
    /\ prog = "race" /\ race[r].pc = "start"
    /\ \E getThrows \in BOOLEAN :
          race' = [race EXCEPT
                      ![r].existingData = IF getThrows THEN NoValue ELSE kv[RaceKey],
                      ![r].getThrew = getThrows,
                      ![r].writesSeen = WritesDone,
                      ![r].pc = "read"]
    /\ UNCHANGED << prog, kv, fProduct, fEvents, pResult, tsSearch >>
    /\ UNCHANGED << workerVars, localVars, batchVars, dedupVars, apiVars,
                    extractVars >>

\* the merge with what was read, and await this.env.CAR_LISTINGS.put(key, ...)
RacePut(r) ==
    /\ prog = "race" /\ race[r].pc = "read"
    /\ \E putThrows \in BOOLEAN :
          LET final == finalCars(race[r].existingData, race[r].cars)
          IN  IF putThrows
              THEN /\ race' = [race EXCEPT ![r].pc = "done", ![r].http = 500]
                   /\ UNCHANGED kv
              ELSE /\ race' = [race EXCEPT ![r].pc = "done", ![r].http = 200]
                   /\ kv' = [kv EXCEPT ![RaceKey] =
                               [cars |-> final, n |-> Len(final), writer |-> "storeCars"]]
    /\ UNCHANGED << prog, fProduct, fEvents, pResult, tsSearch >>
    /\ UNCHANGED << workerVars, localVars, batchVars, dedupVars, apiVars,
                    extractVars >>

RaceNext ==
    \/ \E r \in Requests : RaceGet(r)
    \/ \E r \in Requests : RacePut(r)

-----------------------------------------------------------------------------
(* Specifications *)

Programs == {"worker", "local", "batch", "client", "dedup", "api", "detail",
             "year", "scraper", "detect", "fields", "price", "tssearch",
             "race"}

Init ==
    /\ prog \in Programs
    /\ kv = EmptyKV
    \* worker
    /\ wPc = "prefetch"
    /\ wAutoStore \in (IF prog = "worker" THEN BOOLEAN ELSE {FALSE})
    /\ wBrand \in (IF wAutoStore THEN Brands ELSE {"fiat"})
    /\ wMaxPagesParam \in (IF prog = "worker" THEN 0..MaxPagesOpt ELSE {0})
    /\ wNow = 0
    /\ wCurrentPage = 1
    /\ wTotalPages = 0
    /\ wHasMorePages = TRUE
    /\ wAllCars = <<>>
    /\ wExit = "none"
    /\ wFetched = <<>>
    /\ wServed = <<>>
    /\ wResponse = NoResponse
    /\ wDelayed = FALSE
    \* local scraper
    /\ lPc = "loop"
    /\ lMaxPages \in (IF prog = "local" THEN 0..MaxPagesOpt ELSE {0})
    /\ lCurrentPage = 1
    /\ lHasNextPage = TRUE
    /\ lAllCars = <<>>
    /\ lExit = "none"
    /\ lFetched = <<>>
    /\ lServed = <<>>
    /\ lResult = NoResult
    /\ lStore = NoStore
    \* batches
    /\ bPc = "loop"
    /\ bN \in (IF prog \in {"batch", "client"} THEN 0..MaxQueries ELSE {0})
    /\ bOutcome \in [1..bN -> Outcomes]
    /\ bI = 1
    /\ bResults = <<>>
    /\ bLog = <<>>
    /\ bReturned = <<>>
    \* deduplication
    /\ dPc = "start"
    /\ dCars \in (IF prog = "dedup" THEN SeqsUpTo(Cars, MaxDedupLen) ELSE { <<>> })
    /\ dResult = NoDedup
    \* CarsAPI
    /\ sCount = 0
    /\ sLast = NoRequest
    \* detail enrichment
    /\ ePc = "start"
    /\ eCar \in (IF prog = "detail" THEN SummaryCars
                                     ELSE { [f \in DetailFields |-> ""] })
    /\ eResult = NoEnrichment
    \* year extraction
    /\ yCount = 0
    /\ yResult = NoYearResult
    \* MercadoLibreAutosScraper
    /\ scraper \in { NewScraper(limit) :
                       limit \in (IF prog = "scraper" THEN {Infinity, 1} ELSE {Infinity}) }
    /\ scEvents = 0
    \* detectNextPage
    /\ nResult = NoDecision
    \* the fields of one record
    /\ fProduct = NewProduct
    /\ fEvents = 0
    \* addPrice on one text
    /\ pResult = NoPriceResult
    \* handleInfiniteSearch of search-autos.ts
    /\ tsSearch = NewTsSearch
    \* two storeCars requests
    /\ race \in (IF prog = "race"
                 THEN { [r \in Requests |-> NewRequest(IF r = 1 THEN cars1 ELSE cars2)] :
                            cars1 \in RaceCars(1), cars2 \in RaceCars(2) }
                 ELSE { [r \in Requests |-> NewRequest(<<>>)] })

Next ==
    \/ WorkerNext
    \/ LocalNext(FALSE)
    \/ BatchNext
    \/ DedupNext
    \/ ApiNext
    \/ DetailNext
    \/ YearNext
    \/ ScraperNext
    \/ DetectNext
    \/ FieldsNext
    \/ PriceNext
    \/ TsSearchNext
    \/ RaceNext

Spec == Init /\ [][Next]_vars

\* The sessions alone, run to their end: the handler's awaits resume (a fetch
\* answers or fails, a timer fires), so a session that can take a step does.
\* (the worker never reads maxPages and uses brand only in the store key, so
\* one value of each is followed)
SessionInit ==
    /\ Init
    /\ prog \in {"worker", "local"}
    /\ wBrand = "fiat"
    /\ wMaxPagesParam = 0

SessionNext ==
    \/ WorkerNext
    \/ LocalNext(TRUE)

FairSpec == SessionInit /\ [][SessionNext]_vars /\ WF_vars(SessionNext)

-----------------------------------------------------------------------------
(* Vocabulary of the properties *)

WorkerDone == prog = "worker" /\ wPc = "done"
LocalDone  == prog = "local" /\ lPc = "done"
SessionDone == WorkerDone \/ LocalDone

NonNull(cars)     == SelectSeq(cars, LAMBDA car : car.id # NullId)
NullRecords(cars) == SelectSeq(cars, LAMBDA car : car.id = NullId)

Last(s) == s[Len(s)]

\* the positions of a list that hold the first record with their (non-null) id
FirstOccurrences(all) ==
    { i \in DOMAIN all : all[i].id # NullId /\ \A j \in 1..(i - 1) : all[j].id # all[i].id }

\* the records of all at the positions K, in their order in all
RECURSIVE Pick(_, _, _)
Pick(all, K, i) ==
    IF i > Len(all) THEN <<>>
    ELSE (IF i \in K THEN << all[i] >> ELSE <<>>) \o Pick(all, K, i + 1)

RECURSIVE IsSubsequence(_, _)
IsSubsequence(out, all) ==
    IF out = <<>> THEN TRUE
    ELSE IF all = <<>> THEN FALSE
    ELSE IF Head(out) = Head(all) THEN IsSubsequence(Tail(out), Tail(all))
    ELSE IsSubsequence(out, Tail(all))

UniqueIds(out) ==
    \A i, j \in DOMAIN out : (i < j /\ out[i].id = out[j].id) => out[i].id = NullId

\* out holds records of the pages served and one record for every id served
HoldsRecordsOf(out, pages) ==
    LET all == Flatten(pages)
    IN  /\ Range(out) \subseteq Range(all)
        /\ \A r \in Range(all) : \E o \in Range(out) : o.id = r.id
        /\ UniqueIds(NonNull(out))

-----------------------------------------------------------------------------
(* C1: when the fetch of page k fails, the session stops at page k, no later
   page is fetched, and the result holds the deduplicated records of the
   pages 1..k-1 *)
C1_PartialResultsKept ==
    /\ (prog = "worker" /\ wExit = "failed") =>
          /\ Last(wFetched) = wCurrentPage
          /\ \A i \in DOMAIN wFetched : wFetched[i] <= wCurrentPage
          /\ Len(wServed) = wCurrentPage - 1
          /\ wPc \in {"finish", "done"}
          /\ wPc = "done" => /\ wResponse.http = 200
                             /\ HoldsRecordsOf(wResponse.cars, wServed)
    /\ (prog = "local" /\ lExit = "failed") =>
          /\ Last(lFetched) = lCurrentPage
          /\ \A i \in DOMAIN lFetched : lFetched[i] <= lCurrentPage
          /\ Len(lServed) = lCurrentPage - 1
          /\ lPc \in {"finish", "done"}
          /\ lPc = "done" => HoldsRecordsOf(lResult.cars, lServed)

C1_Witness ==
    /\ WorkerDone /\ wExit = "failed"
    /\ wCurrentPage = 3
    /\ Len(wResponse.cars) > 0
    /\ wResponse.duplicatesRemoved > 0

(* C2: with maxPages = N configured, a session fetches no more than N result
   pages (the request for the page before handleInfiniteSearch not counted) *)
C2_PageCeiling ==
    /\ (prog = "worker" /\ wMaxPagesParam > 0) => Len(wFetched) - 1 <= wMaxPagesParam
    /\ (prog = "local" /\ lMaxPages > 0) => Len(lFetched) <= lMaxPages

(* C3: every scrape session eventually terminates *)
C3_EverySessionTerminates == <>SessionDone

(* C3, amended: the worker's infinite search terminates, and so does a local
   session that was given a page ceiling *)
C3_BudgetedSessionTerminates ==
    (prog = "worker" \/ (prog = "local" /\ lMaxPages > 0)) ~> SessionDone

C3_Witness ==
    /\ WorkerDone /\ wExit = "budget80"
    /\ wTotalPages > MinCarsPerPage
    /\ wHasMorePages

StatusOf(exit) ==
    IF exit \in {"failed", "prefetch"} THEN "Failed"
    ELSE IF exit = "empty" THEN "NoMoreResults"
    ELSE IF exit \in {"budget80", "timeout", "maxpages"} THEN "BudgetExceeded"
    ELSE "Completed"

(* C4: the result of a session carries a terminal status that tells why the
   session ended *)
C4_TerminalStatus ==
    /\ WorkerDone => /\ "status" \in DOMAIN wResponse
                     /\ wResponse["status"] = StatusOf(wExit)
    /\ LocalDone  => /\ "status" \in DOMAIN lResult
                     /\ lResult["status"] = StatusOf(lExit)

(* C5: a batch over n queries runs all n queries and returns one outcome per
   query, in input order; a query that throws is recorded as a failure with
   its message and the later queries still run *)
C5_BatchCompletes ==
    (prog \in {"batch", "client"} /\ bPc = "done") =>
        /\ SelectSeq(bLog, LAMBDA e : e.ev = "start") = [i \in 1..bN |-> Started(i)]
        /\ Len(bReturned) = bN
        /\ \A i \in 1..bN :
              /\ bReturned[i].q = i
              /\ bReturned[i].success = bOutcome[i].ok
              /\ ~bOutcome[i].ok => bReturned[i].error = bOutcome[i].msg
              /\ bOutcome[i].ok => bReturned[i].totalCars = bOutcome[i].cars

C5_Witness ==
    /\ prog = "batch" /\ bPc = "done"
    /\ bN = MaxQueries
    /\ ~bOutcome[1].ok
    /\ bOutcome[bN].ok
    /\ bReturned[bN].success

(* C6: between two consecutive queries of a batch the inter-query delay is
   awaited before the next query starts, whether the earlier one succeeded or
   failed *)
C6_DelayBetweenQueries ==
    \A p \in DOMAIN bLog :
        (bLog[p].ev = "start" /\ bLog[p].q > 1) => bLog[p - 1] = Delayed

(* C7: the records a session returns hold no non-null id twice; the record
   kept for an id is its first occurrence in page order, and the kept records
   are in their original relative order *)
C7_FirstOccurrenceKept ==
    /\ WorkerDone =>
          LET all == Flatten(wServed)
          IN  /\ UniqueIds(wResponse.cars)
              /\ NonNull(wResponse.cars) = Pick(all, FirstOccurrences(all), 1)
              /\ IsSubsequence(wResponse.cars, all)
    /\ LocalDone =>
          LET all == Flatten(lServed)
          IN  /\ UniqueIds(lResult.cars)
              /\ NonNull(lResult.cars) = Pick(all, FirstOccurrences(all), 1)
              /\ IsSubsequence(lResult.cars, all)

C7_Witness ==
    /\ WorkerDone
    /\ Len(wServed) = 2
    /\ wServed[1] = PageA /\ wServed[2] = PageB
    /\ wResponse.duplicatesRemoved = 1
    /\ wResponse.cars[1] = PageA[1]

(* C8: every record without an id passes through deduplication and is in the
   output, however many there are *)
C8_NullIdsPassThrough ==
    (prog = "dedup" /\ dPc = "done") => NullRecords(dResult.once) = NullRecords(dCars)

(* C9: deduplicating a list concatenated with itself yields as many records
   as deduplicating the list once *)
C9_SelfMergeSameCount ==
    (prog = "dedup" /\ dPc = "done") => Len(dResult.twice) = Len(dResult.once)

(* C9, amended: the counts are equal for removeDuplicates; the infinite
   search's deduplication keeps every id-less record, so the list taken twice
   yields one more record per id-less record of the list (and the same count
   when every record has an id) *)
C9_SelfMergeCount ==
    (prog = "dedup" /\ dPc = "done") =>
        Len(dResult.twice) =
            Len(dResult.once)
              + (IF dResult.fn = "UniqueCars" THEN Len(NullRecords(dCars)) ELSE 0)

C9_Witness ==
    /\ prog = "dedup" /\ dPc = "done"
    /\ dResult.fn = "UniqueCars"
    /\ Len(dCars) = MaxDedupLen
    /\ Len(NullRecords(dCars)) = 1
    /\ Len(dResult.once) = 2
    /\ Len(dResult.twice) = 3

(* C10: after storeCars on a key that holds a collection, the stored cars are
   the existing records whose id is not among the new ids, in their order,
   followed by all new records, and totalCars is their number *)
C10_MergeOnStore ==
    [][ LET key == Key(toLowerCase(sLast'.brand), toLowerCase(Model))
        IN  (sCount' = sCount + 1 /\ sLast'.op = "store" /\ sLast'.http = 200
             /\ kv[key].writer # "none") =>
               LET newIds == { sLast'.cars[i].id : i \in DOMAIN sLast'.cars }
                   kept   == SelectSeq(kv[key].cars, LAMBDA car : car.id \notin newIds)
               IN  /\ kv'[key].cars = kept \o sLast'.cars
                   /\ kv'[key].n = Len(kv'[key].cars)
      ]_vars

-----------------------------------------------------------------------------
(* Stored collections *)

StoreOps == {"store", "handleStore"}

\* C11: once a collection was stored with enriched records, a later store of
\* a plain (non-enriching) scrape of the same brand/model leaves every one of
\* those enriched records in the stored collection as it was.
C11_EnrichedRecordsKept ==
    [][ ( /\ sLast.op \in StoreOps /\ sLast.http = 200 /\ sLast.enriched
          /\ sLast'.op \in StoreOps /\ sLast'.http = 200 /\ ~sLast'.enriched
          /\ sLast'.brand = sLast.brand /\ sLast'.key = sLast.key
          /\ sCount' = sCount + 1 ) =>
            \A i \in DOMAIN sLast.cars :
                sLast.cars[i].id # NullId =>
                    sLast.cars[i] \in Range(kv'[sLast.key].cars)
      ]_vars

\* C13: a collection written by storeCars for (brand, model) is found by
\* getCarsByBrandModel and by deleteCarCollection called with the same brand
\* and model strings, upper-case letters or not.
C13_StoredIsFound ==
    [][ ( /\ sLast.op = "store" /\ sLast.http = 200
          /\ sLast'.op \in {"get", "delete"} /\ ~sLast'.getThrew
          /\ sLast'.brand = sLast.brand
          /\ sCount' = sCount + 1 ) =>
            sLast'.http = 200
      ]_vars

-----------------------------------------------------------------------------
(* Store failures *)

\* C12: a failed write to the store neither loses the gathered records nor
\* turns the scrape into a failure: the operation still returns every
\* gathered record, with the store outcome reported as failed.
C12_StoreFailureKeepsRecords ==
    /\ (prog = "worker" /\ wPc = "done" /\ wResponse.autoStore = "failed") =>
           /\ wResponse.http = 200
           /\ wResponse.cars = UniqueCars(wAllCars)
    /\ (prog = "local" /\ lStore.uploadFailed) =>
           /\ lStore.state = "returned"
           /\ lStore.data = lResult

-----------------------------------------------------------------------------
(* Detail enrichment *)

\* C14: detail enrichment only fills fields the summary pass left null or
\* empty: every field the summary pass set has the same value afterwards, and
\* when the detail fetch or parse fails the record is returned unchanged and
\* is kept.
C14_EnrichmentOnlyFills ==
    (prog = "detail" /\ ePc = "done") =>
        /\ eResult.kept
        /\ \A f \in DetailFields : eCar[f] # "" => eResult.car[f] = eCar[f]
        /\ eResult.failed => eResult.car = eCar

-----------------------------------------------------------------------------
(* Page count *)

\* the pages of a session that put records into allCars
PagesAdded(served) == Cardinality({ i \in DOMAIN served : Len(served[i]) > 0 })

\* C15: the reported pagesScraped is the number of result pages whose records
\* were extracted and added to the session result, however the session ended
\* (a page that was extracted and held no record may be counted or not).
C15_PagesScrapedHonest ==
    /\ (prog = "worker" /\ wPc = "done" /\ wResponse.http = 200) =>
           /\ PagesAdded(wServed) <= wResponse.pagesScraped
           /\ wResponse.pagesScraped <= Len(wServed)
    /\ (prog = "local" /\ lPc = "done") =>
           /\ PagesAdded(lServed) <= lResult.pagesScraped
           /\ lResult.pagesScraped <= Len(lServed)

-----------------------------------------------------------------------------
(* Year window *)

\* C16: a record's year is null or inside [1990, currentYear + 1], whichever
\* extractor and whichever strategy (attribute list, title, free text)
\* produced it.
C16_YearInWindow ==
    yResult.year = NoYear
    \/ (yResult.year >= MinYear /\ yResult.year <= CurrentYear + 1)

-----------------------------------------------------------------------------
(* Records of the scraper *)

\* the id the ordered patterns give for a link: first match wins, null when
\* none matches (and for no link)
DerivedId(link) == ExtractIdLoop(patterns(link), 1, NullId)

ScraperRecords == Range(scraper.products) \cup
                  (IF scraper.currentProduct.started
                   THEN {scraper.currentProduct} ELSE {})

\* C17: the id of the record in progress and of every retained record is
\* what the ordered id patterns give for the record's current link, null
\* when none matches; it is never left over from an earlier link nor taken
\* from elsewhere.
C17_IdDerivedFromLink ==
    \A product \in ScraperRecords : product.id = DerivedId(product.link)

\* C18: every retained record has a non-empty title and a link, and a brand
\* keyword, a car keyword or a year in its title, or a link on the listing
\* host; no candidate failing this is retained.
C18_RetainedAreListings ==
    \A i \in DOMAIN scraper.products :
        LET product == scraper.products[i]
        IN  /\ product.title # {}
            /\ product.link # NoLink
            /\ \/ "brand" \in product.title
               \/ "carword" \in product.title
               \/ "year" \in product.title
               \/ product.link.host = "autos.mercadolibre.com.ar"

\* a record retained for its link alone, after a candidate was turned down
C18_Witness ==
    /\ prog = "scraper"
    /\ scraper.productCount > Len(scraper.products)
    /\ \E i \in DOMAIN scraper.products :
          /\ scraper.products[i].title = {"other"}
          /\ scraper.products[i].link.host = "autos.mercadolibre.com.ar"

-----------------------------------------------------------------------------
(* Next-page decision *)

\* the three positive signals: an enabled Siguiente control, the next page
\* number as a link or listed in the pagination widget, a URL with the next
\* offset
PositiveSignal(html) ==
    \/ html.siguiente = "enabled"
    \/ html.nextNumber = "link"
    \/ (html.container /\ html.nextNumber # "none")
    \/ html.nextOffset # "none"

\* C19: detectNextPage answers continue only without an end-of-results
\* marker; with a marker it answers stop whatever the positive signals, and
\* without one it answers continue exactly when a positive signal is there.
C19_NextPageDecision ==
    nResult.analysed =>
        /\ nResult.markup.endMessage => ~nResult.shouldContinue
        /\ ~nResult.markup.endMessage =>
               (nResult.shouldContinue <=> PositiveSignal(nResult.markup))

-----------------------------------------------------------------------------
(* Overlap with earlier pages *)

\* records of the i-th served page whose id was seen on an earlier page
Overlap(served, i) == duplicateCount(served[i], Flatten(SubSeq(served, 1, i - 1)))

\* pages the infinite search requested (the request made before the loop by
\* handleAutosSearch not counted)
PagesFetched == Len(wFetched) - 1

\* C20: when at least 80% of the records of a page after the first have ids
\* seen on earlier pages, pagination ends after that page: no further page
\* is fetched.
C20_OverlapAtLeast80Stops ==
    prog = "worker" =>
        \A i \in 2..Len(wServed) :
            (Len(wServed[i]) > 0
             /\ Overlap(wServed, i) * 10 >= Len(wServed[i]) * 8)
                => PagesFetched <= i

\* C20 as the code has it: when more than 80% of the records of a page after
\* the first have ids seen on earlier pages, no further page is fetched.
C20_OverlapAbove80Stops ==
    prog = "worker" =>
        \A i \in 2..Len(wServed) :
            (Len(wServed[i]) > 0
             /\ Overlap(wServed, i) * 10 > Len(wServed[i]) * 8)
                => PagesFetched <= i

\* the second page repeats the first, has a next page, and the search ends
C20_Witness ==
    /\ WorkerDone /\ wExit = "dups"
    /\ Len(wServed) = 2
    /\ Overlap(wServed, 2) = Len(wServed[2])
    /\ PagesFetched = 2
    /\ wResponse.pagesScraped = 2

-----------------------------------------------------------------------------
(* Time budget and politeness delay of the infinite search *)

\* C21: no page fetch is started once more than 80% of the 20000 ms budget
\* has elapsed since the search started; the budget is looked at between
\* pages only, and a fetch in progress ends by its own answer or failure.
C21_NoFetchPastBudget ==
    [][ prog = "worker" =>
          /\ (wPc = "loop" /\ wPc' = "fetch") =>
                 wNow * 10 <= MaxExecutionTime * 8
          /\ (wPc = "fetch" /\ wPc' # "fetch") =>
                 (wServed' # wServed \/ wExit' = "failed")
      ]_vars

\* a search stopped by the 80% check after a fetch that ran past it
C21_Witness ==
    /\ WorkerDone /\ wExit = "budget80"
    /\ Len(wServed) >= 2
    /\ wNow * 10 > MaxExecutionTime * 8
    /\ PagesFetched = Len(wServed)

\* C22: within one infinite-search request every fetch after the first is
\* preceded by a politeness delay awaited to its end since the previous
\* fetch: no two fetches to the site are issued back to back.
C22_DelayBeforeEveryFetch ==
    [][ (prog = "worker" /\ Len(wFetched') > Len(wFetched) /\ Len(wFetched) > 0)
            => wDelayed
      ]_vars

-----------------------------------------------------------------------------
(* Finalization *)

\* C23: each started fragment's record is appended to the record list at
\* most once, whether it is finalized at the end of a page, by the next
\* startProduct, or by the finalization of a page without fragments.
C23_AppendedAtMostOnce ==
    \A i, j \in DOMAIN scraper.products :
        scraper.products[i].fragment = scraper.products[j].fragment => i = j

\* C24: within one record in progress, a field among price.amount, year,
\* kilometers, location and thumbnail that already holds a value is not
\* changed by a later extraction event; later events only fill empty fields.
C24_SetFieldsKept ==
    [][ prog = "fields" =>
          /\ fProduct.amount # NewProduct.amount => fProduct'.amount = fProduct.amount
          /\ fProduct.year # NoYear => fProduct'.year = fProduct.year
          /\ fProduct.kilometers # NoKm => fProduct'.kilometers = fProduct.kilometers
          /\ fProduct.location # "" => fProduct'.location = fProduct.location
          /\ fProduct.thumbnail # "" => fProduct'.thumbnail = fProduct.thumbnail
      ]_vars

\* the amount (in hundredths) the three rules give for a price text
PriceByRule(text) ==
    LET n == Len(text.groups)
    IN  IF text.comma # <<>>
        THEN parseFloat(RemoveDots(text.groups), text.comma)
        ELSE IF Len(text.groups[n]) <= 2
        THEN parseFloat(RemoveDots(SubSeq(text.groups, 1, n - 1)), text.groups[n])
        ELSE parseFloat(RemoveDots(text.groups), <<>>)

\* C25: a price text with dots and no comma is read with the dot as the
\* decimal separator when the last group has at most 2 digits ("12.50" is
\* 12.5) and with the dots as thousands separators otherwise ("1.234" is
\* 1234); with dots and a comma, the comma is the decimal separator
\* ("1.234.567,89" is 1234567.89).
C25_PriceSeparators ==
    (pResult.called /\ Len(pResult.text.groups) > 1 /\ pResult.amount # NewProduct.amount)
        => pResult.amount = PriceByRule(pResult.text)


\* C26: for a finite limit L, after every operation of the scraper the number
\* of retained records is at most L and the number of started fragments is at
\* most L.
C26_LimitBoundsRecords ==
    (prog = "scraper" /\ scraper.limit # Infinity)
        => /\ Len(scraper.products) <= scraper.limit
           /\ scraper.productCount <= scraper.limit

\* the limit was reached, a record was retained, and a further fragment asked
\* for a record
C26_Witness ==
    /\ prog = "scraper" /\ scraper.limit # Infinity
    /\ scraper.refused
    /\ scraper.productCount = scraper.limit
    /\ Len(scraper.products) = scraper.limit

\* C27: once `limit` fragments have been started, the events of later
\* fragments (title, link, id, price, details) do not change the last started
\* record.
C27_LaterFragmentsKeptOut ==
    [][ (prog = "scraper" /\ scraper.refused)
            => scraper'.currentProduct = scraper.currentProduct ]_vars


\* C29: whenever CarsAPI.storeCars answers with an error status (400 or 500),
\* the value stored at the collection key is the same as before the request.
C29_ErrorLeavesStoreUntouched ==
    [][ (prog = "api" /\ sCount' = sCount + 1 /\ sLast'.op = "store"
            /\ sLast'.http \in {400, 500})
            => kv' = kv ]_vars

\* a store request answered with an error while its key holds a collection
C29_Witness ==
    /\ prog = "api" /\ sLast.op = "store" /\ sLast.http = 500
    /\ sLast.cars # <<>>
    /\ kv[sLast.key].writer # "none"


\* C28: in the infinite search of the TypeScript worker and of the Pages
\* Function every page fetched with a success status is parsed, and its
\* records are in the session result, before the next-page decision is taken.
C28_FetchedPagesParsed ==
    (prog = "tssearch" /\ tsSearch.pc \in {"loop", "done"})
        => tsSearch.okPages \subseteq tsSearch.parsedPages

\* the ids of a list of records
IdsOf(cars) == { cars[i].id : i \in DOMAIN cars }

\* C30: if two storeCars requests for one key both read the collection before
\* either writes, the collection finally stored holds the records of both.
C30_OverlappingStoresMerge ==
    (/\ prog = "race"
     /\ \A r \in Requests : /\ race[r].pc = "done" /\ race[r].http = 200
                            /\ ~race[r].getThrew /\ race[r].writesSeen = 0)
        => \A r \in Requests : IdsOf(race[r].cars) \subseteq IdsOf(kv[RaceKey].cars)


=============================================================================
